---------------------------- MODULE Spec2Model ----------------------------
(***************************************************************************)
(* State-machine model of src/src/lib/ml/churn-predictor.ts: the           *)
(* ChurnPredictor class (predictChurn, batchPredict, setRiskThreshold and  *)
(* the private scoring helpers).                                           *)
(*                                                                         *)
(* Numbers.  A JavaScript number is modelled as a fixed-point integer in   *)
(* units of 10^-6 (SCALE), or as the distinguished value NaN.  Math.exp    *)
(* and Math.tanh are evaluated in that fixed-point arithmetic (argument    *)
(* reduction over tables of e^-k and e^-j/16, then a 4th-order Taylor      *)
(* polynomial), accurate to a few units of 10^-6.  Every intermediate      *)
(* value stays below 2^31.                                                 *)
(*                                                                         *)
(* Dates.  A parsed date is a day number; a string that Date cannot parse  *)
(* gives getTime() = NaN, modelled as InvalidDate.                         *)
(***************************************************************************)
EXTENDS Integers, Sequences, FiniteSets, TLC

(***************************************************************************)
(* Fixed-point arithmetic                                                  *)
(***************************************************************************)
SCALE == 1000 * 1000

\* IEEE NaN: a value outside the range of every modelled number.
NaN == 0 - 2000 * SCALE

\* JavaScript undefined / a missing optional field.
Undefined == 0 - 2001 * SCALE

IsNaN(x) == x = NaN

Abs(x) == IF x < 0 THEN 0 - x ELSE x

Sgn(x) == IF x < 0 THEN 0 - 1 ELSE 1

Min(a, b) == IF a < b THEN a ELSE b

Max(a, b) == IF a > b THEN a ELSE b

\* a / b rounded to nearest, for b > 0
RoundDiv(a, b) == Sgn(a) * ((2 * Abs(a) + b) \div (2 * b))

\* Fixed-point product a * b / SCALE for a, b >= 0, without leaving 31 bits.
MulPos(a, b) ==
    LET ah == a \div 1000
        al == a % 1000
        bh == b \div 1000
        bl == b % 1000
    IN  ah * bh + ((ah * bl + al * bh) + ((al * bl + 500) \div 1000) + 500) \div 1000

\* Fixed-point quotient a * SCALE / b for 0 <= a <= b <= 2 * SCALE.
DivFrac(a, b) ==
    LET q1 == a \div b
        r1 == a % b
        q2 == (r1 * 1000) \div b
        r2 == (r1 * 1000) % b
        q3 == (r2 * 1000 + b \div 2) \div b
    IN  q1 * SCALE + q2 * 1000 + q3

\* e^-k for k = 0 .. 15, in units of 10^-6
ExpNegInt ==
    << 1000000, 367879, 135335, 49787, 18316, 6738, 2479, 912,
       335, 123, 45, 17, 6, 2, 1, 0 >>

\* e^-(j/16) for j = 0 .. 15, in units of 10^-6
ExpNegSixteenth ==
    << 1000000, 939413, 882497, 829029, 778801, 731616, 687289, 645649,
       606531, 569783, 535261, 502832, 472367, 443747, 416862, 391606 >>

\* 1 - r + r^2/2 - r^3/6 + r^4/24 for 0 <= r < 1/16, given r2 = r^2
ExpNegTaylor(r, r2) ==
    SCALE - r + r2 \div 2 - MulPos(r2, r) \div 6 + MulPos(r2, r2) \div 24

\* e^-(k + j/16 + r)
ExpNegParts(k, j, r) ==
    IF k >= 15 THEN 0
    ELSE MulPos(MulPos(ExpNegInt[k + 1], ExpNegSixteenth[j + 1]),
                ExpNegTaylor(r, MulPos(r, r)))

\* Math.exp(-x) for x >= 0
ExpNeg(x) ==
    ExpNegParts(x \div SCALE, (x % SCALE) \div (SCALE \div 16), (x % SCALE) % (SCALE \div 16))

\* (1 - e) / (1 + e) with the sign of x, for e = e^(-2|x|)
TanhFrom(x, e) == Sgn(x) * DivFrac(SCALE - e, SCALE + e)

\* Math.tanh(x); tanh(NaN) = NaN
Tanh(x) ==
    IF IsNaN(x) THEN NaN
    ELSE TanhFrom(x, ExpNeg(2 * Min(Abs(x), 10 * SCALE)))

\* 1 / (1 + e^-x) for e = e^-|x|: evaluated as e^x / (1 + e^x) when x < 0
SigmoidFrom(x, e) ==
    IF x >= 0 THEN DivFrac(SCALE, SCALE + e) ELSE DivFrac(e, SCALE + e)

\* 1 / (1 + Math.exp(-x))
Sigmoid(x) ==
    IF IsNaN(x) THEN NaN
    ELSE SigmoidFrom(x, ExpNeg(Min(Abs(x), 20 * SCALE)))


(***************************************************************************)
(* NaN-aware comparisons: every comparison with NaN is false               *)
(***************************************************************************)
Lt(a, b) == ~IsNaN(a) /\ ~IsNaN(b) /\ a < b

Gt(a, b) == ~IsNaN(a) /\ ~IsNaN(b) /\ a > b

Ge(a, b) == ~IsNaN(a) /\ ~IsNaN(b) /\ a >= b

\* JavaScript truthiness of an optional number: undefined, 0 and NaN are falsy
Truthy(v) == v # Undefined /\ v # 0 /\ ~IsNaN(v)

RECURSIVE SeqSum(_)
SeqSum(s) == IF s = << >> THEN 0 ELSE Head(s) + SeqSum(Tail(s))

(***************************************************************************)
(* The predictor's state and its environment                               *)
(***************************************************************************)
VARIABLES
    threshold,   \* ChurnPredictor.threshold
    setCall,     \* the last setRiskThreshold call: its argument and its outcome
    got,         \* what the last getRiskThreshold call returned
    now,         \* the day number new Date() gives
    result,      \* the last predictChurn call: its arguments and its outcome
    first,       \* an earlier predictChurn call kept for comparison
    batch,       \* the batchPredict call in progress or last finished
    trend,       \* the last calculateTrend call: its argument and its result
    modelWeights, \* ChurnPredictor.modelWeights
    factored,    \* the last identifyRiskFactors call: its argument and its result
    prioritized  \* the last mlUtils.prioritizeInterventions call

vars == << threshold, setCall, got, now, result, first, batch, trend,
           modelWeights, factored, prioritized >>

\* private modelVersion
modelVersion == "v1.2"

\* The initialiser of private modelWeights, in hundredths
initialModelWeights ==
    [ tenure_months            |-> 0 - 15,
      avg_performance_rating   |-> 0 - 25,
      performance_trend        |-> 0 - 20,
      avg_engagement_score     |-> 0 - 30,
      engagement_trend         |-> 0 - 18,
      salary_percentile        |-> 0 - 12,
      manager_changes          |-> 22,
      department_turnover_rate |-> 28,
      promotion_gap_months     |-> 16,
      work_life_balance_score  |-> 0 - 24 ]

\* The keys of a FeatureVector
FeatureNames ==
    { "tenure_months", "avg_performance_rating", "performance_trend",
      "avg_engagement_score", "engagement_trend", "salary_percentile",
      "manager_changes", "department_turnover_rate", "promotion_gap_months",
      "work_life_balance_score" }

(***************************************************************************)
(* calculateTrend                                                          *)
(***************************************************************************)
\* data.sort((a, b) => new Date(a.date).getTime() - new Date(b.date).getTime()):
\* ascending by date, stable (ECMAScript 2019): element i goes to the place
\* counting the elements that sort before it.
DateRank(data, i) ==
    1 + Cardinality({ j \in 1..Len(data) :
                        \/ data[j].date < data[i].date
                        \/ data[j].date = data[i].date /\ j < i })

\* Mutant of SortByDate: the sort is left out
SortByDate_Unsorted(data) == data

SortByDate(data) ==
    [ k \in 1..Len(data) |->
        data[CHOOSE i \in 1..Len(data) : DateRank(data, i) = k] ]

\* The slope of the least-squares line of value against rank 0, 1, 2, ...
slopeOf(sorted) ==
    LET n      == Len(sorted)
        sumX   == SeqSum([ i \in 1..n |-> i - 1 ])
        sumY   == SeqSum([ i \in 1..n |-> sorted[i].value ])
        sumXY  == SeqSum([ i \in 1..n |-> (i - 1) * sorted[i].value ])
        sumXX  == SeqSum([ i \in 1..n |-> (i - 1) * (i - 1) ])
    IN  RoundDiv(n * sumXY - sumX * sumY, n * sumXX - sumX * sumX)

calculateTrend(data) ==
    IF Len(data) < 2 THEN 0 ELSE Tanh(slopeOf(SortByDate(data)))

\* The array calculateTrend was given, after the call: data.sort sorts in place
dataAfterTrend(data) ==
    IF Len(data) < 2 THEN data ELSE SortByDate(data)

\* Mutant of historyAfterExtract: calculateTrend is given the list itself, and
\* its sort reorders the list by the dates
historyAfterExtract_SortedInPlace(history, dates) ==
    LET numbered == [ i \in 1..Len(history) |-> [ date |-> dates[i], value |-> i ] ]
    IN  [ k \in 1..Len(history) |-> history[dataAfterTrend(numbered)[k].value] ]

\* The caller's list after extractFeatures.  extractFeatures reads the list
\* (length, reduce, map) and gives calculateTrend the new array map built from
\* its dates and values, so the sort reorders that array and not the list.
historyAfterExtract(history, dates) == history

(***************************************************************************)
(* extractFeatures                                                         *)
(***************************************************************************)
\* Math.floor((now.getTime() - hireDate.getTime()) / (1000*60*60*24*30)), in months
tenureMonthsOf(hire_date, today) ==
    IF IsNaN(hire_date) THEN NaN ELSE ((today - hire_date) \div 30) * SCALE

\* Mutant of avgPerformanceOf: no records average to 0
avgPerformanceOf_ZeroDefault(performanceHistory) ==
    IF Len(performanceHistory) > 0
    THEN RoundDiv(SeqSum([ i \in 1..Len(performanceHistory) |-> performanceHistory[i].rating ]),
                  Len(performanceHistory))
    ELSE 0

avgPerformanceOf(performanceHistory) ==
    IF Len(performanceHistory) > 0
    THEN RoundDiv(SeqSum([ i \in 1..Len(performanceHistory) |-> performanceHistory[i].rating ]),
                  Len(performanceHistory))
    ELSE 3 * SCALE

avgEngagementOf(engagementHistory) ==
    IF Len(engagementHistory) > 0
    THEN RoundDiv(SeqSum([ i \in 1..Len(engagementHistory) |-> engagementHistory[i].overall_score ]),
                  Len(engagementHistory))
    ELSE 7 * SCALE

\* e.work_life_balance || 7
workLifeOr7(v) == IF Truthy(v) THEN v ELSE 7 * SCALE

workLifeBalanceOf(engagementHistory) ==
    IF Len(engagementHistory) > 0
    THEN RoundDiv(SeqSum([ i \in 1..Len(engagementHistory) |->
                             workLifeOr7(engagementHistory[i].work_life_balance) ]),
                  Len(engagementHistory))
    ELSE 7 * SCALE

\* employee.salary ? Math.min(employee.salary / 120000, 1.0) : 0.5  (salary in dollars)
salaryPercentileOf(salary) ==
    IF Truthy(salary) THEN Min(RoundDiv(salary * 25, 3), SCALE) ELSE SCALE \div 2

\* departmentData?.turnover_rate || 0.15
departmentTurnoverRateOf(departmentData) ==
    IF departmentData.present /\ Truthy(departmentData.turnover_rate)
    THEN departmentData.turnover_rate
    ELSE 150000

\* Math.max(0, tenureMonths - 24); Math.max with NaN is NaN
promotionGapOf(tenureMonths) ==
    IF IsNaN(tenureMonths) THEN NaN ELSE Max(0, tenureMonths - 24 * SCALE)

extractFeatures(employee, performanceHistory, engagementHistory, departmentData, today) ==
    LET tenureMonths == tenureMonthsOf(employee.hire_date, today)
    IN  [ tenure_months            |-> tenureMonths,
          avg_performance_rating   |-> avgPerformanceOf(performanceHistory),
          performance_trend        |->
              calculateTrend([ i \in 1..Len(performanceHistory) |->
                  [ date  |-> performanceHistory[i].review_date,
                    value |-> performanceHistory[i].rating ] ]),
          avg_engagement_score     |-> avgEngagementOf(engagementHistory),
          engagement_trend         |->
              calculateTrend([ i \in 1..Len(engagementHistory) |->
                  [ date  |-> engagementHistory[i].survey_date,
                    value |-> engagementHistory[i].overall_score ] ]),
          salary_percentile        |-> salaryPercentileOf(employee.salary),
          manager_changes          |-> 0,
          department_turnover_rate |-> departmentTurnoverRateOf(departmentData),
          promotion_gap_months     |-> promotionGapOf(tenureMonths),
          work_life_balance_score  |-> workLifeBalanceOf(engagementHistory) ]

(***************************************************************************)
(* calculateRiskScore, normalizeFeature, categorizeRisk                    *)
(***************************************************************************)
normalizeFeature(featureName, value) ==
    IF IsNaN(value) THEN NaN
    ELSE CASE featureName = "tenure_months"            -> Tanh(RoundDiv(value, 60))
           [] featureName = "avg_performance_rating"   -> RoundDiv(value - 3 * SCALE, 2)
           [] featureName = "avg_engagement_score"     -> RoundDiv((value - 5500000) * 2, 9)
           [] featureName = "salary_percentile"        -> (value - 500000) * 2
           [] featureName = "department_turnover_rate" -> Tanh(value * 10)
           [] featureName = "promotion_gap_months"     -> Tanh(RoundDiv(value, 36))
           [] OTHER                                    -> Tanh(value)

\* score += weight * normalizedValue, in units of 10^-8; NaN propagates
addWeighted(score, weight, normalizedValue) ==
    IF IsNaN(score) \/ IsNaN(normalizedValue) THEN NaN
    ELSE score + weight * normalizedValue

\* score += weight * normalizeFeature(feature, features[feature])
accumulate(score, features, f) ==
    addWeighted(score, modelWeights[f], normalizeFeature(f, features[f]))

\* Units of 10^-8 to units of 10^-6
toMicro(score) == IF IsNaN(score) THEN NaN ELSE RoundDiv(score, 100)

\* Mutant of linearScore: the base score is the instance's threshold
linearScore_FromThreshold(features) ==
    toMicro(
      accumulate(accumulate(accumulate(accumulate(accumulate(
      accumulate(accumulate(accumulate(accumulate(accumulate(
        100 * threshold,
        features, "tenure_months"),
        features, "avg_performance_rating"),
        features, "performance_trend"),
        features, "avg_engagement_score"),
        features, "engagement_trend"),
        features, "salary_percentile"),
        features, "manager_changes"),
        features, "department_turnover_rate"),
        features, "promotion_gap_months"),
        features, "work_life_balance_score"))

\* let score = 0.5, then the forEach over the ten weights
linearScore(features) ==
    toMicro(
      accumulate(accumulate(accumulate(accumulate(accumulate(
      accumulate(accumulate(accumulate(accumulate(accumulate(
        50 * SCALE,
        features, "tenure_months"),
        features, "avg_performance_rating"),
        features, "performance_trend"),
        features, "avg_engagement_score"),
        features, "engagement_trend"),
        features, "salary_percentile"),
        features, "manager_changes"),
        features, "department_turnover_rate"),
        features, "promotion_gap_months"),
        features, "work_life_balance_score"))

calculateRiskScore(features) == Sigmoid(linearScore(features))

categorizeRisk(riskScore) ==
    IF Ge(riskScore, 800000) THEN "CRITICAL"
    ELSE IF Ge(riskScore, 600000) THEN "HIGH"
    ELSE IF Ge(riskScore, 300000) THEN "MEDIUM"
    ELSE "LOW"

(***************************************************************************)
(* identifyRiskFactors                                                     *)
(***************************************************************************)
FallbackFactor == "Multiple minor risk indicators"

pushIf(cond, factor) == IF cond THEN << factor >> ELSE << >>

\* Mutant of specificFactors: the tenure rule is tested first
specificFactors_TenureFirst(features) ==
    pushIf(Lt(features.tenure_months, 6 * SCALE), "Recent hire adjustment period")
    \o pushIf(Lt(features.avg_performance_rating, 3 * SCALE), "Below average performance rating")
    \o pushIf(Lt(features.performance_trend, 0 - 300000), "Declining performance trend")
    \o pushIf(Lt(features.avg_engagement_score, 6 * SCALE), "Low engagement score")
    \o pushIf(Lt(features.engagement_trend, 0 - 300000), "Declining engagement trend")
    \o pushIf(Lt(features.work_life_balance_score, 6 * SCALE), "Poor work-life balance")
    \o pushIf(Lt(features.salary_percentile, 300000), "Below market salary")
    \o pushIf(Gt(features.manager_changes, 2 * SCALE), "Frequent manager changes")
    \o pushIf(Gt(features.department_turnover_rate, 250000), "High department turnover")
    \o pushIf(Gt(features.promotion_gap_months, 36 * SCALE), "Long time since last promotion")

specificFactors(features) ==
    pushIf(Lt(features.avg_performance_rating, 3 * SCALE), "Below average performance rating")
    \o pushIf(Lt(features.performance_trend, 0 - 300000), "Declining performance trend")
    \o pushIf(Lt(features.avg_engagement_score, 6 * SCALE), "Low engagement score")
    \o pushIf(Lt(features.engagement_trend, 0 - 300000), "Declining engagement trend")
    \o pushIf(Lt(features.work_life_balance_score, 6 * SCALE), "Poor work-life balance")
    \o pushIf(Lt(features.salary_percentile, 300000), "Below market salary")
    \o pushIf(Gt(features.manager_changes, 2 * SCALE), "Frequent manager changes")
    \o pushIf(Gt(features.department_turnover_rate, 250000), "High department turnover")
    \o pushIf(Gt(features.promotion_gap_months, 36 * SCALE), "Long time since last promotion")
    \o pushIf(Lt(features.tenure_months, 6 * SCALE), "Recent hire adjustment period")

\* Mutant of withFallback: the generic factor is pushed whatever the length
withFallback_Always(factors) == factors \o << FallbackFactor >>

\* if (factors.length === 0) factors.push('Multiple minor risk indicators')
withFallback(factors) ==
    IF Len(factors) = 0 THEN << FallbackFactor >> ELSE factors

identifyRiskFactors(features) == withFallback(specificFactors(features))

(***************************************************************************)
(* calculateConfidence                                                     *)
(***************************************************************************)
\* Object.values(features).filter(v => v !== 0).length  (NaN !== 0 is true)
nonZeroCount(features) == Cardinality({ f \in FeatureNames : features[f] # 0 })

\* Mutant of calculateConfidence: extremeness is measured from the threshold
calculateConfidence_FromThreshold(features, riskScore) ==
    IF IsNaN(riskScore) \/ IsNaN(threshold) THEN NaN
    ELSE Min(700000 + nonZeroCount(features) * 20000
             + RoundDiv(Abs(riskScore - threshold) * 2, 10), 950000)

calculateConfidence(features, riskScore) ==
    IF IsNaN(riskScore) THEN NaN
    ELSE Min(700000 + nonZeroCount(features) * 20000
             + RoundDiv(Abs(riskScore - 500000) * 2, 10), 950000)

\* Math.round(v * 1000) / 1000
round3(v) == IF IsNaN(v) THEN NaN ELSE ((v + 500) \div 1000) * 1000


(***************************************************************************)
(* predictChurn                                                            *)
(***************************************************************************)
PredictionError == "Churn prediction failed"

NoPrediction ==
    [ id |-> 0, employee_id |-> 0, prediction_date |-> 0, risk_score |-> 0,
      risk_level |-> "", risk_factors |-> << >>, confidence |-> 0,
      model_version |-> "" ]

\* extractFeatures reads employee.hire_date: a TypeError when employee is null
extractFeaturesThrows(employee) == employee.isNull

\* The returned object, from the features and the risk score
predictionOf(employee, today, id, features, riskScore) ==
    [ id              |-> id,
      employee_id     |-> employee.id,
      prediction_date |-> today,
      risk_score      |-> round3(riskScore),
      risk_level      |-> categorizeRisk(riskScore),
      risk_factors    |-> identifyRiskFactors(features),
      confidence      |-> round3(calculateConfidence(features, riskScore)),
      model_version   |-> modelVersion ]

scoreAndPredict(employee, today, id, features) ==
    predictionOf(employee, today, id, features, calculateRiskScore(features))

\* The body of the try block: the ChurnPrediction that is returned.
buildPrediction(employee, performanceHistory, engagementHistory, departmentData, today, id) ==
    scoreAndPredict(employee, today, id,
                    extractFeatures(employee, performanceHistory, engagementHistory,
                                    departmentData, today))

\* try { ... return prediction } catch (error) { throw new Error(`Churn prediction failed: ...`) }
predictChurn(employee, performanceHistory, engagementHistory, departmentData, today, id) ==
    IF extractFeaturesThrows(employee)
    THEN [ ok |-> FALSE, error |-> PredictionError, prediction |-> NoPrediction ]
    ELSE [ ok |-> TRUE, error |-> "",
           prediction |-> buildPrediction(employee, performanceHistory, engagementHistory,
                                          departmentData, today, id) ]

NoDepartment == [ present |-> FALSE, turnover_rate |-> Undefined ]

NullEmployee == [ isNull |-> TRUE, id |-> 0, hire_date |-> 0, salary |-> Undefined ]

NoCall ==
    [ status |-> "idle",
      employee |-> NullEmployee, performanceHistory |-> << >>, engagementHistory |-> << >>,
      departmentData |-> NoDepartment, today |-> 0, threshold |-> Undefined,
      employeeAfter |-> NullEmployee, performanceHistoryAfter |-> << >>,
      engagementHistoryAfter |-> << >>,
      error |-> "", prediction |-> NoPrediction ]

\* One predictChurn call: the record of its arguments, of the threshold the
\* instance holds during the call, of what the caller's employee and lists
\* hold after the call, and of its outcome.
callRecord(employee, performanceHistory, engagementHistory, departmentData, today, out) ==
    [ status |-> IF out.ok THEN "returned" ELSE "threw",
      employee |-> employee, performanceHistory |-> performanceHistory,
      engagementHistory |-> engagementHistory, departmentData |-> departmentData,
      today |-> today, threshold |-> threshold,
      employeeAfter |-> employee,
      performanceHistoryAfter |->
          IF out.ok
          THEN historyAfterExtract(performanceHistory,
                   [ i \in 1..Len(performanceHistory) |-> performanceHistory[i].review_date ])
          ELSE performanceHistory,
      engagementHistoryAfter |->
          IF out.ok
          THEN historyAfterExtract(engagementHistory,
                   [ i \in 1..Len(engagementHistory) |-> engagementHistory[i].survey_date ])
          ELSE engagementHistory,
      error |-> out.error, prediction |-> out.prediction ]

(***************************************************************************)
(* batchPredict                                                            *)
(***************************************************************************)
\* Mutant of filterByEmployee: every record is passed on
filterByEmployee_All(records, employee) == records

\* performanceData.filter(p => p.employee_id === employee.id)
filterByEmployee(records, employee) ==
    LET same(r) == r.employee_id = employee.id
    IN  SelectSeq(records, same)

\* The filter callbacks read employee.id once per record: a TypeError when the
\* employee is null and there is a record to test.
filterThrows(b, employee) ==
    employee.isNull /\ (Len(b.performanceData) > 0 \/ Len(b.engagementData) > 0)

NoBatch ==
    [ pc |-> "idle", employees |-> << >>, performanceData |-> << >>,
      engagementData |-> << >>,
      given |-> [ employees |-> << >>, performanceData |-> << >>,
                  engagementData |-> << >> ],
      i |-> 1, calls |-> 0, predictions |-> << >>,
      thresholds |-> << >>, error |-> "", output |-> << >>, order |-> << >> ]

\* const predictions = []; the for loop is entered.  employees, performanceData
\* and engagementData are the caller's lists as they are now, given as they
\* were when batchPredict was called.
batchStart(employees, performanceData, engagementData) ==
    [ NoBatch EXCEPT !.pc = "loop", !.employees = employees,
                     !.performanceData = performanceData,
                     !.engagementData = engagementData,
                     !.given = [ employees |-> employees,
                                 performanceData |-> performanceData,
                                 engagementData |-> engagementData ] ]

\* Mutant of awaitPrediction: a failed prediction is skipped and the loop goes on
awaitPrediction_SkipFailed(b, out) ==
    IF ~out.ok
    THEN [ b EXCEPT !.calls = @ + 1, !.i = @ + 1 ]
    ELSE [ b EXCEPT !.predictions = Append(@, out.prediction),
                    !.calls = @ + 1, !.i = @ + 1 ]

\* const prediction = await this.predictChurn(...); predictions.push(prediction)
awaitPrediction(b, out) ==
    IF ~out.ok
    THEN [ b EXCEPT !.pc = "threw", !.error = out.error, !.calls = @ + 1 ]
    ELSE [ b EXCEPT !.predictions = Append(@, out.prediction),
                    !.calls = @ + 1, !.i = @ + 1 ]

\* The body of the for loop for one employee
iterateFor(b, employee, today, id) ==
    IF filterThrows(b, employee)
    THEN [ b EXCEPT !.pc = "threw", !.error = "TypeError" ]
    ELSE awaitPrediction(b, predictChurn(employee,
                                         filterByEmployee(b.performanceData, employee),
                                         filterByEmployee(b.engagementData, employee),
                                         NoDepartment, today, id))

\* One iteration of the for loop, up to and including the await; thresholds
\* records the threshold the instance holds during each iteration.
batchIterate(b, today, id) ==
    [ iterateFor(b, b.employees[b.i], today, id) EXCEPT
          !.thresholds = Append(@, threshold) ]

\* predictions.sort((a, b) => b.risk_score - a.risk_score): descending, stable.
\* The place of element i counts the elements that sort before it.
ScoreRank(predictions, i) ==
    1 + Cardinality({ j \in 1..Len(predictions) :
                        \/ predictions[j].risk_score > predictions[i].risk_score
                        \/ /\ predictions[j].risk_score = predictions[i].risk_score
                           /\ j < i })

Perms(n) == { f \in [1..n -> 1..n] : \A a, c \in 1..n : f[a] = f[c] => a = c }

\* The orders the sort may leave: order[k] is the index, before the sort, of the
\* element at place k.  With a NaN risk_score the comparator returns NaN for some
\* pairs and is not a consistent comparator, so the order is implementation-defined.
sortOrders(predictions) ==
    IF \E k \in 1..Len(predictions) : IsNaN(predictions[k].risk_score)
    THEN Perms(Len(predictions))
    ELSE { [ k \in 1..Len(predictions) |->
               CHOOSE i \in 1..Len(predictions) : ScoreRank(predictions, i) = k ] }

\* return predictions.sort(...)
batchReturn(b, order) ==
    [ b EXCEPT !.pc = "returned", !.order = order,
               !.output = [ k \in 1..Len(order) |-> b.predictions[order[k]] ] ]

(***************************************************************************)
(* setRiskThreshold                                                        *)
(***************************************************************************)
ThresholdError == "Threshold must be between 0 and 1"

setRiskThresholdThrows(t) == Lt(t, 0) \/ Gt(t, SCALE)


(***************************************************************************)
(* mlUtils.prioritizeInterventions                                         *)
(***************************************************************************)
\* Mutant of highOrCritical: only HIGH is kept
highOrCritical_OnlyHigh(predictions) ==
    LET keep(p) == p.risk_level = "HIGH"
    IN  SelectSeq(predictions, keep)

\* predictions.filter(p => p.risk_level === 'HIGH' || p.risk_level === 'CRITICAL')
highOrCritical(predictions) ==
    LET keep(p) == p.risk_level = "HIGH" \/ p.risk_level = "CRITICAL"
    IN  SelectSeq(predictions, keep)

NoPrioritized ==
    [ status |-> "idle", predictions |-> << >>, predictionsAfter |-> << >>,
      order |-> << >>, output |-> << >> ]

\* .sort((a, b) => b.risk_score - a.risk_score) reorders, in place, the new array
\* filter returned: the array the caller passed is left as it was.
sortFiltered(predictions, filtered, order) ==
    [ status |-> "returned", predictions |-> predictions,
      predictionsAfter |-> predictions, order |-> order,
      output |-> [ k \in 1..Len(order) |-> filtered[order[k]] ] ]

(***************************************************************************)
(* Inputs                                                                  *)
(***************************************************************************)
\* Bounds of the model: records in a history, employees in a batch, months
\* that pass, points given to calculateTrend, predictions given to
\* prioritizeInterventions
MaxRecords == 2

MaxBatch == 3

MaxTicks == 1

MaxPoints == 3

MaxPredictions == 3

\* The day new Date() gives in the initial state
Today == 20 * 1000

\* new Date(s).getTime() of a string that is no date
InvalidDate == NaN

\* Hired 72, 30 or 2 months ago, or with an unparseable hire_date
HireDates == { Today - 72 * 30, Today - 30 * 30, Today - 2 * 30, InvalidDate }

\* No salary, a salary below the 0.3 percentile, and one above the median
Salaries == { Undefined, 30000, 91000 }

EmployeesOf(ids, hireDates, salaries) ==
    [ isNull : {FALSE}, id : ids, hire_date : hireDates, salary : salaries ]

\* (review_date, rating) of a review
Reviews ==
    { [ review_date |-> Today - 200, rating |-> 4 * SCALE ],
      [ review_date |-> Today - 100, rating |-> 4 * SCALE ],
      [ review_date |-> Today - 100, rating |-> 2 * SCALE ] }

PerformanceRecordsOf(ids) ==
    { [ employee_id |-> e, review_date |-> r.review_date, rating |-> r.rating ] :
      e \in ids, r \in Reviews }

\* (survey_date, overall_score, work_life_balance) of a survey; the sub-score may
\* be missing
Surveys ==
    { [ survey_date |-> Today - 200, overall_score |-> 8 * SCALE,
        work_life_balance |-> Undefined ],
      [ survey_date |-> Today - 100, overall_score |-> 8 * SCALE,
        work_life_balance |-> Undefined ],
      [ survey_date |-> Today - 100, overall_score |-> 4 * SCALE,
        work_life_balance |-> 3 * SCALE ] }

EngagementRecordsOf(ids) ==
    { [ employee_id |-> e, survey_date |-> s.survey_date,
        overall_score |-> s.overall_score,
        work_life_balance |-> s.work_life_balance ] :
      e \in ids, s \in Surveys }

SeqsUpTo(S, n) == UNION { [1..k -> S] : k \in 0..n }

Departments ==
    { NoDepartment,
      [ present |-> TRUE, turnover_rate |-> 100000 ],
      [ present |-> TRUE, turnover_rate |-> 300000 ] }

\* Math.random().toString(36).substr(2, 9): the ids it may give
Ids == { 1, 2 }

\* Arguments of setRiskThreshold
ThresholdArgs == { 0 - 500000, 0, 300000, SCALE, 1500000, NaN }

(***************************************************************************)
(* Initial state                                                           *)
(***************************************************************************)
NoSetCall == [ status |-> "none", arg |-> 0, before |-> 0, error |-> "" ]

NoTrend == [ status |-> "idle", data |-> << >>, dataAfter |-> << >>, value |-> 0 ]

NoFactors == [ status |-> "idle", features |-> << >>, factors |-> << >> ]

Init ==
    /\ threshold = 500000
    /\ setCall = NoSetCall
    /\ got = Undefined
    /\ now = Today
    /\ result = NoCall
    /\ first = NoCall
    /\ batch = NoBatch
    /\ trend = NoTrend
    /\ modelWeights = initialModelWeights
    /\ factored = NoFactors
    /\ prioritized = NoPrioritized

(***************************************************************************)
(* Actions                                                                 *)
(***************************************************************************)
\* setRiskThreshold(t)
SetRiskThreshold(t) ==
    /\ IF setRiskThresholdThrows(t)
       THEN /\ setCall' = [ status |-> "threw", arg |-> t, before |-> threshold,
                            error |-> ThresholdError ]
            /\ UNCHANGED threshold
       ELSE /\ setCall' = [ status |-> "returned", arg |-> t, before |-> threshold,
                            error |-> "" ]
            /\ threshold' = t
    /\ UNCHANGED << got, now, result, first, batch, trend,
                 modelWeights, factored, prioritized >>

\* getRiskThreshold()
GetRiskThreshold ==
    /\ got' = threshold
    /\ UNCHANGED << threshold, setCall, now, result, first, batch, trend,
                 modelWeights, factored, prioritized >>

\* predictChurn(employee, performanceHistory, engagementHistory, departmentData)
PredictChurn(employee, performanceHistory, engagementHistory, departmentData, id) ==
    /\ result.status = "idle"
    /\ result' = callRecord(employee, performanceHistory, engagementHistory,
                            departmentData, now,
                            predictChurn(employee, performanceHistory, engagementHistory,
                                         departmentData, now, id))
    /\ UNCHANGED << threshold, setCall, got, now, first, batch, trend,
                 modelWeights, factored, prioritized >>

\* The caller takes the outcome of predictChurn
TakeResult ==
    /\ result.status # "idle"
    /\ result' = NoCall
    /\ UNCHANGED << threshold, setCall, got, now, first, batch, trend,
                 modelWeights, factored, prioritized >>

\* The caller keeps the outcome of predictChurn to compare a later call with it
KeepResult ==
    /\ result.status # "idle"
    /\ first' = result
    /\ result' = NoCall
    /\ UNCHANGED << threshold, setCall, got, now, batch, trend,
                 modelWeights, factored, prioritized >>

\* batchPredict(employees, performanceData, engagementData) is called
BatchPredict(employees, performanceData, engagementData) ==
    /\ batch.pc = "idle"
    /\ batch' = batchStart(employees, performanceData, engagementData)
    /\ UNCHANGED << threshold, setCall, got, now, result, first, trend,
                 modelWeights, factored, prioritized >>

\* One iteration of batchPredict's loop
BatchIterate(id) ==
    /\ batch.pc = "loop"
    /\ batch.i <= Len(batch.employees)
    /\ batch' = batchIterate(batch, now, id)
    /\ UNCHANGED << threshold, setCall, got, now, result, first, trend,
                 modelWeights, factored, prioritized >>

\* The loop is over: sort and return
BatchReturn ==
    /\ batch.pc = "loop"
    /\ batch.i > Len(batch.employees)
    /\ \E order \in sortOrders(batch.predictions) :
           batch' = batchReturn(batch, order)
    /\ UNCHANGED << threshold, setCall, got, now, result, first, trend,
                 modelWeights, factored, prioritized >>

\* The caller takes the outcome of batchPredict
TakeBatch ==
    /\ batch.pc \in { "returned", "threw" }
    /\ batch' = NoBatch
    /\ UNCHANGED << threshold, setCall, got, now, result, first, trend,
                 modelWeights, factored, prioritized >>

\* calculateTrend(data)
CalculateTrend(data) ==
    /\ trend.status = "idle"
    /\ trend' = [ status |-> "returned", data |-> data,
                  dataAfter |-> dataAfterTrend(data), value |-> calculateTrend(data) ]
    /\ UNCHANGED << threshold, setCall, got, now, result, first, batch,
                 modelWeights, factored, prioritized >>

\* The caller takes the trend
TakeTrend ==
    /\ trend.status # "idle"
    /\ trend' = NoTrend
    /\ UNCHANGED << threshold, setCall, got, now, result, first, batch,
                 modelWeights, factored, prioritized >>

\* mlUtils.prioritizeInterventions(predictions)
PrioritizeInterventions(predictions) ==
    /\ prioritized.status = "idle"
    /\ \E order \in sortOrders(highOrCritical(predictions)) :
           prioritized' = sortFiltered(predictions, highOrCritical(predictions), order)
    /\ UNCHANGED << threshold, setCall, got, now, result, first, batch, trend,
                    modelWeights, factored >>

\* The caller takes the prioritized list
TakePrioritized ==
    /\ prioritized.status # "idle"
    /\ prioritized' = NoPrioritized
    /\ UNCHANGED << threshold, setCall, got, now, result, first, batch, trend,
                    modelWeights, factored >>

\* identifyRiskFactors(features)
IdentifyRiskFactors(features) ==
    /\ factored.status = "idle"
    /\ factored' = [ status |-> "returned", features |-> features,
                     factors |-> identifyRiskFactors(features) ]
    /\ UNCHANGED << threshold, setCall, got, now, result, first, batch, trend,
                    modelWeights, prioritized >>

\* The caller takes the factors
TakeFactors ==
    /\ factored.status # "idle"
    /\ factored' = NoFactors
    /\ UNCHANGED << threshold, setCall, got, now, result, first, batch, trend,
                    modelWeights, prioritized >>

\* A month passes
Tick ==
    /\ now < Today + 30 * MaxTicks
    /\ now' = now + 30
    /\ UNCHANGED << threshold, setCall, got, result, first, batch, trend,
                 modelWeights, factored, prioritized >>

(***************************************************************************)
(* Specifications                                                          *)
(***************************************************************************)
\* SpecPredict: single predictions over the full input sets.
PredictInputs ==
    [ employee : EmployeesOf({1}, HireDates, Salaries) \cup { NullEmployee },
      performanceHistory : SeqsUpTo(PerformanceRecordsOf({1}), MaxRecords),
      engagementHistory : SeqsUpTo(EngagementRecordsOf({1}), MaxRecords),
      departmentData : Departments ]

NextPredict ==
    \/ /\ result.status = "idle"
       /\ \E in \in PredictInputs, id \in Ids :
              PredictChurn(in.employee, in.performanceHistory, in.engagementHistory,
                           in.departmentData, id)
    \/ TakeResult

SpecPredict == Init /\ [][NextPredict]_vars

\* SpecThreshold: the threshold's setter and getter.
NextThreshold ==
    \/ \E t \in ThresholdArgs : SetRiskThreshold(t)
    \/ GetRiskThreshold

SpecThreshold == Init /\ [][NextThreshold]_vars

\* SpecBatch: batchPredict over lists of two employees with parseable and
\* unparseable hire dates and of null entries, with and without records.  No
\* operator reads a prediction's id, so one id stands for all in a batch.
BatchEmployees ==
    EmployeesOf({1, 2}, { Today - 72 * 30, InvalidDate }, { 91000 }) \cup { NullEmployee }

BatchPerformanceData ==
    { << >>,
      << [ employee_id |-> 1, review_date |-> Today - 200, rating |-> 4 * SCALE ],
         [ employee_id |-> 2, review_date |-> Today - 100, rating |-> 2 * SCALE ],
         [ employee_id |-> 1, review_date |-> Today - 100, rating |-> 2 * SCALE ] >> }

BatchEngagementData ==
    { << >>,
      << [ employee_id |-> 2, survey_date |-> Today - 100, overall_score |-> 4 * SCALE,
           work_life_balance |-> 3 * SCALE ] >> }

NextBatch ==
    \/ /\ batch.pc = "idle"
       /\ \E employees \in SeqsUpTo(BatchEmployees, MaxBatch),
             performanceData \in BatchPerformanceData,
             engagementData \in BatchEngagementData :
              BatchPredict(employees, performanceData, engagementData)
    \/ BatchIterate(1)
    \/ BatchReturn
    \/ TakeBatch

SpecBatch == Init /\ [][NextBatch]_vars

\* SpecTrend: calculateTrend over the sequences of up to MaxPoints points.
TrendPoints == [ date : 1..MaxPoints, value : { 2 * SCALE, 3 * SCALE, 4 * SCALE } ]

NextTrend ==
    \/ /\ trend.status = "idle"
       /\ \E data \in SeqsUpTo(TrendPoints, MaxPoints) : CalculateTrend(data)
    \/ TakeTrend

SpecTrend == Init /\ [][NextTrend]_vars

\* SpecPrioritize: prioritizeInterventions over lists of predictions the
\* predictor returns: an unparseable hire date (NaN, LOW), two MEDIUM ones of
\* which one has the rounded score 0.6, two HIGH ones and a CRITICAL one.
PrioritizeInputs ==
    { [ employee |-> [ isNull |-> FALSE, id |-> 1, hire_date |-> InvalidDate,
                       salary |-> 91000 ],
        performanceHistory |-> << >>, engagementHistory |-> << >>,
        departmentData |-> NoDepartment ],
      [ employee |-> [ isNull |-> FALSE, id |-> 2, hire_date |-> Today - 72 * 30,
                       salary |-> 91000 ],
        performanceHistory |-> << >>, engagementHistory |-> << >>,
        departmentData |-> NoDepartment ],
      [ employee |-> [ isNull |-> FALSE, id |-> 3, hire_date |-> Today - 2 * 30,
                       salary |-> 91000 ],
        performanceHistory |->
            << [ employee_id |-> 3, review_date |-> Today - 100, rating |-> 2 * SCALE ] >>,
        engagementHistory |->
            << [ employee_id |-> 3, survey_date |-> Today - 100,
                 overall_score |-> 8 * SCALE, work_life_balance |-> Undefined ] >>,
        departmentData |-> NoDepartment ],
      [ employee |-> [ isNull |-> FALSE, id |-> 4, hire_date |-> Today - 72 * 30,
                       salary |-> 91000 ],
        performanceHistory |->
            << [ employee_id |-> 4, review_date |-> Today - 100, rating |-> 2 * SCALE ],
               [ employee_id |-> 4, review_date |-> Today - 200, rating |-> 4 * SCALE ] >>,
        engagementHistory |-> << >>,
        departmentData |-> NoDepartment ],
      [ employee |-> [ isNull |-> FALSE, id |-> 5, hire_date |-> Today - 2 * 30,
                       salary |-> 30000 ],
        performanceHistory |->
            << [ employee_id |-> 5, review_date |-> Today - 100, rating |-> 2 * SCALE ] >>,
        engagementHistory |->
            << [ employee_id |-> 5, survey_date |-> Today - 100,
                 overall_score |-> 4 * SCALE, work_life_balance |-> 3 * SCALE ] >>,
        departmentData |-> NoDepartment ],
      [ employee |-> [ isNull |-> FALSE, id |-> 6, hire_date |-> Today - 2 * 30,
                       salary |-> 6000 ],
        performanceHistory |->
            << [ employee_id |-> 6, review_date |-> Today - 200, rating |-> 2 * SCALE ],
               [ employee_id |-> 6, review_date |-> Today - 100, rating |-> 1 * SCALE ] >>,
        engagementHistory |->
            << [ employee_id |-> 6, survey_date |-> Today - 200,
                 overall_score |-> 2 * SCALE, work_life_balance |-> 1 * SCALE ],
               [ employee_id |-> 6, survey_date |-> Today - 100,
                 overall_score |-> 1 * SCALE, work_life_balance |-> 1 * SCALE ] >>,
        departmentData |-> [ present |-> TRUE, turnover_rate |-> 300000 ] ] }

\* The predictions predictChurn returns for them
PrioritizePredictions ==
    { buildPrediction(in.employee, in.performanceHistory, in.engagementHistory,
                      in.departmentData, Today, 1) : in \in PrioritizeInputs }

NextPrioritize ==
    \/ /\ prioritized.status = "idle"
       /\ \E predictions \in SeqsUpTo(PrioritizePredictions, MaxPredictions) :
              PrioritizeInterventions(predictions)
    \/ TakePrioritized

SpecPrioritize == Init /\ [][NextPrioritize]_vars

\* SpecFeatures: single predictions whose inputs hold the value 0: a department
\* with no turnover, a survey whose work-life sub-score is 0.
FeatureSurveys ==
    { [ employee_id |-> 1, survey_date |-> Today - 100, overall_score |-> 8 * SCALE,
        work_life_balance |-> w ] : w \in { Undefined, 0, 3 * SCALE } }

FeatureInputs ==
    [ employee : EmployeesOf({1}, { Today - 30 * 30, Today - 2 * 30 }, { 91000 }),
      performanceHistory : { << >> },
      engagementHistory : SeqsUpTo(FeatureSurveys, MaxRecords),
      departmentData : Departments \cup { [ present |-> TRUE, turnover_rate |-> 0 ] } ]

NextFeatures ==
    \/ /\ result.status = "idle"
       /\ \E in \in FeatureInputs, id \in Ids :
              PredictChurn(in.employee, in.performanceHistory, in.engagementHistory,
                           in.departmentData, id)
    \/ TakeResult

SpecFeatures == Init /\ [][NextFeatures]_vars

\* SpecFactors: identifyRiskFactors over feature vectors that hold, for each
\* rule, the rule's threshold itself and a value beyond it, and the NaN tenure
\* of an unparseable hire date.
FactorFeatures ==
    [ tenure_months            : { 6 * SCALE, 5 * SCALE, NaN },
      avg_performance_rating   : { 3 * SCALE, 2900000 },
      performance_trend        : { 0 - 300000, 0 - 300001 },
      avg_engagement_score     : { 6 * SCALE, 5900000 },
      engagement_trend         : { 0 - 300000, 0 - 300001 },
      salary_percentile        : { 300000, 299999 },
      manager_changes          : { 2 * SCALE, 3 * SCALE },
      department_turnover_rate : { 250000, 250001 },
      promotion_gap_months     : { 36 * SCALE, 37 * SCALE },
      work_life_balance_score  : { 6 * SCALE, 5900000 } ]

NextFactors ==
    \/ /\ factored.status = "idle"
       /\ \E features \in FactorFeatures : IdentifyRiskFactors(features)
    \/ TakeFactors

SpecFactors == Init /\ [][NextFactors]_vars

\* Spec: the public operations interleaved, over small input sets: single
\* predictions kept and compared, threshold updates, batches, passing time.
SomeEmployee ==
    [ isNull |-> FALSE, id |-> 1, hire_date |-> Today - 72 * 30, salary |-> 91000 ]

SomeHistory ==
    << [ employee_id |-> 1, review_date |-> Today - 100, rating |-> 2 * SCALE ],
       [ employee_id |-> 1, review_date |-> Today - 200, rating |-> 4 * SCALE ] >>

SomeInputs ==
    [ employee : { SomeEmployee }, performanceHistory : { << >>, SomeHistory },
      engagementHistory : { << >> }, departmentData : { NoDepartment } ]

Next ==
    \/ \E t \in { 300000 } : SetRiskThreshold(t)
    \/ /\ result.status = "idle"
       /\ \E in \in SomeInputs, id \in Ids :
              PredictChurn(in.employee, in.performanceHistory, in.engagementHistory,
                           in.departmentData, id)
    \/ TakeResult
    \/ KeepResult
    \/ /\ batch.pc = "idle"
       /\ \E employees \in SeqsUpTo({ SomeEmployee }, MaxBatch) :
              BatchPredict(employees, SomeHistory, << >>)
    \/ BatchIterate(1)
    \/ BatchReturn
    \/ TakeBatch
    \/ Tick

Spec == Init /\ [][Next]_vars
(***************************************************************************)
(* Properties                                                              *)
(***************************************************************************)
Le(a, b) == ~IsNaN(a) /\ ~IsNaN(b) /\ a <= b

InUnitInterval(v) == Ge(v, 0) /\ Le(v, SCALE)

Range(s) == { s[k] : k \in 1..Len(s) }

\* The features predictChurn extracted in the call that result records
resultFeatures ==
    extractFeatures(result.employee, result.performanceHistory,
                    result.engagementHistory, result.departmentData, result.today)

\* C1: every ChurnPrediction predictChurn returns has risk_score within [0,1]
\* and confidence within [0,0.95].
C1_ScoreAndConfidenceInRange ==
    result.status = "returned" =>
        /\ InUnitInterval(result.prediction.risk_score)
        /\ Ge(result.prediction.confidence, 0)
        /\ Le(result.prediction.confidence, 950000)

\* What holds of the code in place of C1: the ranges hold whenever the
\* employee's hire_date is a parseable date.
C1_InRangeForParseableHireDate ==
    (result.status = "returned" /\ ~IsNaN(result.employee.hire_date)) =>
        /\ InUnitInterval(result.prediction.risk_score)
        /\ Ge(result.prediction.confidence, 700000)
        /\ Le(result.prediction.confidence, 950000)

\* The step function of C2 and of the specification's risk tiering
LevelOfScore(score) ==
    IF Ge(score, 800000) THEN "CRITICAL"
    ELSE IF Ge(score, 600000) THEN "HIGH"
    ELSE IF Ge(score, 300000) THEN "MEDIUM"
    ELSE "LOW"

\* C2: in every returned ChurnPrediction, risk_level is the step function of the
\* returned, 3-decimal rounded risk_score: >= 0.8 CRITICAL, else >= 0.6 HIGH,
\* else >= 0.3 MEDIUM, else LOW.
C2_LevelIsStepOfReturnedScore ==
    result.status = "returned" =>
        result.prediction.risk_level = LevelOfScore(result.prediction.risk_score)

\* What holds of the code in place of C2: risk_level is the step function of
\* the score before it is rounded.
C2_LevelIsStepOfUnroundedScore ==
    result.status = "returned" =>
        result.prediction.risk_level = LevelOfScore(calculateRiskScore(resultFeatures))

\* The ten threshold rules of C3, on the raw feature values
AnyRuleFires(f) ==
    \/ Lt(f.avg_performance_rating, 3 * SCALE)
    \/ Lt(f.performance_trend, 0 - 300000)
    \/ Lt(f.avg_engagement_score, 6 * SCALE)
    \/ Lt(f.engagement_trend, 0 - 300000)
    \/ Lt(f.work_life_balance_score, 6 * SCALE)
    \/ Lt(f.salary_percentile, 300000)
    \/ Gt(f.manager_changes, 2 * SCALE)
    \/ Gt(f.department_turnover_rate, 250000)
    \/ Gt(f.promotion_gap_months, 36 * SCALE)
    \/ Lt(f.tenure_months, 6 * SCALE)

C4_ThresholdStaysInUnitInterval ==
    /\ (setCall.status # "none" /\ ~InUnitInterval(setCall.arg)) =>
           /\ setCall.status = "threw"
           /\ setCall.error = ThresholdError
           /\ threshold = setCall.before
    /\ InUnitInterval(threshold)
    /\ got # Undefined => InUnitInterval(got)

\* What holds of the code in place of C4: an argument below 0 or above 1 is
\* rejected and leaves the threshold unchanged.
C4_RejectsBelow0AndAbove1 ==
    (setCall.status # "none" /\ (Lt(setCall.arg, 0) \/ Gt(setCall.arg, SCALE))) =>
        (setCall.status = "threw" /\ threshold = setCall.before)

\* C5: the list batchPredict returns is sorted descending by risk_score, and
\* predictions with equal risk_score keep the order of their employees in the
\* input list.
C5_BatchSortedDescendingStable ==
    batch.pc = "returned" =>
        /\ \A k \in 1..(Len(batch.output) - 1) :
               Ge(batch.output[k].risk_score, batch.output[k + 1].risk_score)
        /\ \A a, c \in 1..Len(batch.output) :
               (a < c /\ batch.output[a].risk_score = batch.output[c].risk_score)
                   => batch.order[a] < batch.order[c]

\* What holds of the code in place of C5: the claim, for a batch in which every
\* hire_date is a parseable date.
C5_SortedStableForParseableHireDates ==
    (batch.pc = "returned"
     /\ \A k \in 1..Len(batch.employees) : ~IsNaN(batch.employees[k].hire_date)) =>
        /\ \A k \in 1..(Len(batch.output) - 1) :
               Ge(batch.output[k].risk_score, batch.output[k + 1].risk_score)
        /\ \A a, c \in 1..Len(batch.output) :
               (a < c /\ batch.output[a].risk_score = batch.output[c].risk_score)
                   => batch.order[a] < batch.order[c]

\* The prediction for the k-th employee of the batch fails
PredictionFails(b, k) == b.employees[k].isNull

\* C6: batchPredict fails atomically.  If the prediction for an employee fails,
\* batchPredict fails with that error and returns no list, however many earlier
\* employees were predicted, and no later employee is processed.
C6_BatchFailsAtomically ==
    /\ batch.pc = "returned" =>
           /\ \A k \in 1..Len(batch.employees) : ~PredictionFails(batch, k)
           /\ Len(batch.output) = Len(batch.employees)
    /\ batch.pc = "loop" =>
           \A k \in 1..(batch.i - 1) : ~PredictionFails(batch, k)
    /\ batch.pc = "threw" =>
           /\ PredictionFails(batch, batch.i)
           /\ \A k \in 1..(batch.i - 1) : ~PredictionFails(batch, k)
           /\ batch.output = << >>
           /\ Len(batch.predictions) = batch.i - 1
           /\ batch.calls <= batch.i
           /\ batch.calls = batch.i => batch.error = PredictionError

\* C6's case: predictChurn fails for the second or a later employee, with
\* employees after it left unprocessed
C6_Witness ==
    /\ batch.pc = "threw"
    /\ batch.i >= 2
    /\ batch.i < Len(batch.employees)
    /\ batch.calls = batch.i
    /\ batch.error = PredictionError
    /\ Len(batch.predictions) = batch.i - 1

\* C7: a date-parsing failure inside predictChurn (an employee hire_date that is
\* no parseable date) makes the call fail with the wrapped 'Churn prediction
\* failed' error; it is never defaulted into a returned ChurnPrediction.
C7_UnparseableHireDateFails ==
    (result.status # "idle" /\ ~result.employee.isNull
     /\ IsNaN(result.employee.hire_date)) =>
        (result.status = "threw" /\ result.error = PredictionError)

SameArguments(c, d) ==
    /\ c.employee = d.employee
    /\ c.performanceHistory = d.performanceHistory
    /\ c.engagementHistory = d.engagementHistory
    /\ c.departmentData = d.departmentData
    /\ c.today = d.today

\* C8: two predictChurn calls with identical arguments at the same instant
\* return the same risk_score, risk_level, risk_factors and confidence,
\* whatever calls were made in between.
C8_PredictChurnDeterministic ==
    (first.status = "returned" /\ result.status = "returned"
     /\ SameArguments(first, result)) =>
        /\ first.prediction.risk_score = result.prediction.risk_score
        /\ first.prediction.risk_level = result.prediction.risk_level
        /\ first.prediction.risk_factors = result.prediction.risk_factors
        /\ first.prediction.confidence = result.prediction.confidence

\* C8's case: the same arguments twice, with different ids, the threshold
\* changed and a batch run since the instance was made
C8_Witness ==
    /\ first.status = "returned"
    /\ result.status = "returned"
    /\ SameArguments(first, result)
    /\ Len(first.performanceHistory) > 0
    /\ first.prediction.id # result.prediction.id
    /\ threshold # 500000
    /\ batch.pc = "returned"

\* The values are strictly increasing (decreasing) in ascending date order
IncreasingByDate(data) ==
    \A i, j \in 1..Len(data) :
        (i # j /\ data[i].date <= data[j].date) => data[i].value < data[j].value

DecreasingByDate(data) ==
    \A i, j \in 1..Len(data) :
        (i # j /\ data[i].date <= data[j].date) => data[i].value > data[j].value

\* C9: calculateTrend returns exactly 0 for no point or one point; for two or
\* more points given in any order it is positive when the values are strictly
\* increasing in ascending date order, negative when strictly decreasing.
C9_TrendSign ==
    trend.status = "returned" =>
        /\ Len(trend.data) < 2 => trend.value = 0
        /\ (Len(trend.data) >= 2 /\ IncreasingByDate(trend.data)) => trend.value > 0
        /\ (Len(trend.data) >= 2 /\ DecreasingByDate(trend.data)) => trend.value < 0

\* C9's case: three points, increasing by date, given out of date order
C9_Witness ==
    /\ trend.status = "returned"
    /\ Len(trend.data) >= 3
    /\ IncreasingByDate(trend.data)
    /\ trend.data[1].date > trend.data[2].date
    /\ trend.value > 0

\* C10: with no performance record, avg_performance_rating is 3.0 and
\* risk_factors does not contain 'Below average performance rating'.
C10_NoRecordsIsAverage ==
    (result.status = "returned" /\ Len(result.performanceHistory) = 0) =>
        /\ resultFeatures.avg_performance_rating = 3 * SCALE
        /\ "Below average performance rating" \notin Range(result.prediction.risk_factors)

\* C10's case: no performance record, and another rule's factor is returned
C10_Witness ==
    /\ result.status = "returned"
    /\ Len(result.performanceHistory) = 0
    /\ Len(result.engagementHistory) > 0
    /\ "Low engagement score" \in Range(result.prediction.risk_factors)

\* The number of places of s that hold x
Count(s, x) == Cardinality({ k \in 1..Len(s) : s[k] = x })

\* C11: prioritizeInterventions returns exactly the input predictions whose
\* risk_level is HIGH or CRITICAL, each as often as it is in the input and no
\* other, in descending order of risk_score, and the input list is as it was.
C11_PrioritizeFiltersAndSorts ==
    prioritized.status = "returned" =>
        /\ \A p \in Range(prioritized.predictions) \cup Range(prioritized.output) :
               Count(prioritized.output, p) =
                   IF p.risk_level \in { "HIGH", "CRITICAL" }
                   THEN Count(prioritized.predictions, p)
                   ELSE 0
        /\ \A k \in 1..(Len(prioritized.output) - 1) :
               Ge(prioritized.output[k].risk_score, prioritized.output[k + 1].risk_score)
        /\ prioritized.predictionsAfter = prioritized.predictions

\* C11's case: a HIGH prediction given before a CRITICAL one of higher score,
\* next to a prediction that is neither
C11_Witness ==
    /\ prioritized.status = "returned"
    /\ Len(prioritized.predictions) = 3
    /\ Len(prioritized.output) = 2
    /\ prioritized.order = << 2, 1 >>
    /\ prioritized.output[1].risk_level = "CRITICAL"
    /\ prioritized.output[2].risk_level = "HIGH"

\* The records of a shared list that carry the employee id
RecordsOf(records, id) ==
    LET mine(r) == r.employee_id = id
    IN  SelectSeq(records, mine)

\* What predictChurn returns for the k-th employee of the batch, given that
\* employee's own records and no department context, at the given date
AlonePrediction(b, k, date) ==
    predictChurn(b.employees[k],
                 RecordsOf(b.performanceData, b.employees[k].id),
                 RecordsOf(b.engagementData, b.employees[k].id),
                 NoDepartment, date, 1).prediction

\* C12: batchPredict returns one prediction per element of the employees list,
\* with the same employee ids as often, and each has the risk_score, risk_level,
\* risk_factors and confidence of a predictChurn call for that employee with the
\* records of that employee id only and no department context (turnover 0.15).
C12_BatchIsPredictPerEmployee ==
    batch.pc = "returned" =>
        /\ Len(batch.output) = Len(batch.employees)
        /\ \A id \in { batch.employees[k].id : k \in 1..Len(batch.employees) } :
               Cardinality({ k \in 1..Len(batch.output) : batch.output[k].employee_id = id })
                   = Cardinality({ k \in 1..Len(batch.employees) : batch.employees[k].id = id })
        /\ \A k \in 1..Len(batch.output) :
               LET alone == AlonePrediction(batch, batch.order[k],
                                            batch.output[k].prediction_date)
               IN  /\ batch.output[k].employee_id = alone.employee_id
                   /\ batch.output[k].risk_score = alone.risk_score
                   /\ batch.output[k].risk_level = alone.risk_level
                   /\ batch.output[k].risk_factors = alone.risk_factors
                   /\ batch.output[k].confidence = alone.confidence
                   /\ "High department turnover" \notin Range(batch.output[k].risk_factors)

\* C12's case: two employees of different ids whose records are mixed in the
\* shared lists and whose predictions differ
C12_Witness ==
    /\ batch.pc = "returned"
    /\ Len(batch.employees) >= 2
    /\ batch.employees[1].id # batch.employees[2].id
    /\ Len(RecordsOf(batch.performanceData, 1)) = 2
    /\ Len(RecordsOf(batch.performanceData, 2)) = 1
    /\ \E a, c \in 1..Len(batch.output) :
           /\ ~IsNaN(batch.output[a].risk_score)
           /\ ~IsNaN(batch.output[c].risk_score)
           /\ batch.output[a].risk_score # batch.output[c].risk_score

\* C13: department_turnover_rate is the turnover rate of the department context
\* whenever one is supplied, for every supplied value, 0 included, and is 0.15
\* only when none is supplied.
C13_TurnoverIsSuppliedValue ==
    result.status = "returned" =>
        resultFeatures.department_turnover_rate =
            IF result.departmentData.present
            THEN result.departmentData.turnover_rate
            ELSE 150000

\* What holds of the code in place of C13: a supplied turnover rate other than
\* 0 is taken as given; 0 and no context both give 0.15.
C13_TurnoverIsSuppliedNonZeroValue ==
    result.status = "returned" =>
        resultFeatures.department_turnover_rate =
            IF result.departmentData.present /\ result.departmentData.turnover_rate # 0
            THEN result.departmentData.turnover_rate
            ELSE 150000

\* The work-life sub-score of a survey, 7.0 standing for a missing one
SubScoreOr7(e) ==
    IF e.work_life_balance = Undefined THEN 7 * SCALE ELSE e.work_life_balance

\* C14: work_life_balance_score is the mean of the surveys' work-life
\* sub-scores, where 7.0 stands for a missing sub-score only (a sub-score of 0
\* is averaged as 0), and is 7.0 when there is no survey.
C14_WorkLifeIsMeanOfSubScores ==
    result.status = "returned" =>
        resultFeatures.work_life_balance_score =
            IF Len(result.engagementHistory) = 0
            THEN 7 * SCALE
            ELSE RoundDiv(SeqSum([ i \in 1..Len(result.engagementHistory) |->
                                     SubScoreOr7(result.engagementHistory[i]) ]),
                          Len(result.engagementHistory))

\* What holds of the code in place of C14: 7.0 stands for a missing sub-score
\* and for a sub-score of 0.
C14_WorkLifeZeroCountsAsSeven ==
    result.status = "returned" =>
        resultFeatures.work_life_balance_score =
            IF Len(result.engagementHistory) = 0
            THEN 7 * SCALE
            ELSE RoundDiv(SeqSum([ i \in 1..Len(result.engagementHistory) |->
                                     IF result.engagementHistory[i].work_life_balance = 0
                                     THEN 7 * SCALE
                                     ELSE SubScoreOr7(result.engagementHistory[i]) ]),
                          Len(result.engagementHistory))

\* The strings of the ten rules, in the order the specification lists the rules
RuleStrings ==
    << "Below average performance rating", "Declining performance trend",
       "Low engagement score", "Declining engagement trend",
       "Poor work-life balance", "Below market salary",
       "Frequent manager changes", "High department turnover",
       "Long time since last promotion", "Recent hire adjustment period" >>

\* The n-th rule fires on the raw feature values
RuleFires(f, n) ==
    CASE n = 1  -> Lt(f.avg_performance_rating, 3 * SCALE)
      [] n = 2  -> Lt(f.performance_trend, 0 - 300000)
      [] n = 3  -> Lt(f.avg_engagement_score, 6 * SCALE)
      [] n = 4  -> Lt(f.engagement_trend, 0 - 300000)
      [] n = 5  -> Lt(f.work_life_balance_score, 6 * SCALE)
      [] n = 6  -> Lt(f.salary_percentile, 300000)
      [] n = 7  -> Gt(f.manager_changes, 2 * SCALE)
      [] n = 8  -> Gt(f.department_turnover_rate, 250000)
      [] n = 9  -> Gt(f.promotion_gap_months, 36 * SCALE)
      [] n = 10 -> Lt(f.tenure_months, 6 * SCALE)

\* C15: identifyRiskFactors gives the string of each rule that fires on the raw
\* feature values and of no rule that does not, in the order of the rules
\* (performance, performance trend, engagement, engagement trend, work-life
\* balance, salary, manager changes, department turnover, promotion gap,
\* tenure), with strict comparisons, and no string twice.
C15_FactorsInRuleOrder ==
    factored.status = "returned" =>
        /\ \A n \in 1..10 :
               RuleFires(factored.features, n) <=> RuleStrings[n] \in Range(factored.factors)
        /\ \A a, c \in 1..Len(factored.factors) :
               a < c =>
                   /\ factored.factors[a] # factored.factors[c]
                   /\ \E n, q \in 1..10 :
                          /\ n < q
                          /\ factored.factors[a] = RuleStrings[n]
                          /\ factored.factors[c] = RuleStrings[q]
        /\ Range(factored.factors) \subseteq Range(RuleStrings) \cup { FallbackFactor }

\* C15's case: every rule fires but the work-life rule, whose feature is at
\* its threshold 6.0
C15_Witness ==
    /\ factored.status = "returned"
    /\ factored.features.work_life_balance_score = 6 * SCALE
    /\ Len(factored.factors) = 9
    /\ factored.factors[1] = "Below average performance rating"
    /\ factored.factors[5] = "Below market salary"
    /\ factored.factors[9] = "Recent hire adjustment period"

\* The predictChurn call c has the arguments of the k-th iteration of batch b
SameAsIteration(c, b, k) ==
    /\ c.employee = b.employees[k]
    /\ c.performanceHistory = RecordsOf(b.performanceData, b.employees[k].id)
    /\ c.engagementHistory = RecordsOf(b.engagementData, b.employees[k].id)
    /\ c.departmentData = NoDepartment
    /\ c.today = b.predictions[k].prediction_date

\* Two predictions agree in what the predictor computes
SameOutcome(p, q) ==
    /\ p.risk_score = q.risk_score
    /\ p.risk_level = q.risk_level
    /\ p.risk_factors = q.risk_factors
    /\ p.confidence = q.confidence

\* Predictions for the same arguments agree, whatever the threshold was when
\* each was made: a predictChurn call against each iteration of a batch, and
\* the iterations of a batch among themselves.
ThresholdIndependent ==
    /\ \A k \in 1..Len(batch.predictions) :
           /\ (result.status = "returned" /\ SameAsIteration(result, batch, k))
                  => SameOutcome(result.prediction, batch.predictions[k])
           /\ (first.status = "returned" /\ SameAsIteration(first, batch, k))
                  => SameOutcome(first.prediction, batch.predictions[k])
    /\ \A j, k \in 1..Len(batch.predictions) :
           (/\ batch.employees[j] = batch.employees[k]
            /\ batch.predictions[j].prediction_date = batch.predictions[k].prediction_date)
               => SameOutcome(batch.predictions[j], batch.predictions[k])

\* A step of predictChurn or of batchPredict leaves the threshold as it is
PredictionKeepsThreshold ==
    (result' # result \/ batch' # batch) => threshold' = threshold

\* C16: the threshold and prediction are independent.  predictChurn and
\* batchPredict return the same risk_score, risk_level, risk_factors and
\* confidence for every threshold, setRiskThreshold calls between the
\* iterations of a running batchPredict included, and neither changes the
\* value getRiskThreshold returns.
C16_ThresholdIndependence ==
    []ThresholdIndependent /\ [][PredictionKeepsThreshold]_vars

\* C16's case: setRiskThreshold changed the threshold between two iterations
\* of a batch, and predictChurn was called with the arguments of the later
\* iteration under the earlier threshold
C16_Witness ==
    /\ batch.pc = "returned"
    /\ Len(batch.thresholds) >= 2
    /\ batch.thresholds[1] # batch.thresholds[2]
    /\ result.status = "returned"
    /\ SameAsIteration(result, batch, 2)
    /\ result.threshold = batch.thresholds[1]
    /\ threshold = batch.thresholds[2]

\* The caller's employee and lists hold after the predictChurn call c what
\* they held when it was made
CallLeftInputs(c) ==
    /\ c.employeeAfter = c.employee
    /\ c.performanceHistoryAfter = c.performanceHistory
    /\ c.engagementHistoryAfter = c.engagementHistory

\* C17: predictChurn and batchPredict leave the caller's inputs unchanged.  The
\* employee record(s) and the performance and engagement lists hold the same
\* elements in the same order after the call as before it, although the trend
\* is computed on records sorted by date, and the weight table is unchanged.
C17_InputsUnchanged ==
    /\ result.status # "idle" => CallLeftInputs(result)
    /\ first.status # "idle" => CallLeftInputs(first)
    /\ batch.pc # "idle" =>
           /\ batch.employees = batch.given.employees
           /\ batch.performanceData = batch.given.performanceData
           /\ batch.engagementData = batch.given.engagementData
    /\ modelWeights = initialModelWeights

\* C17's case: predictChurn and a batch of two employees have run on
\* performance records given latest first, which the trend needs sorted
C17_Witness ==
    /\ result.status = "returned"
    /\ Len(result.performanceHistory) >= 2
    /\ result.performanceHistory[1].review_date > result.performanceHistory[2].review_date
    /\ resultFeatures.performance_trend # 0
    /\ batch.pc = "returned"
    /\ Len(batch.output) >= 2
    /\ batch.given.performanceData[1].review_date
           > batch.given.performanceData[2].review_date
=============================================================================
